---- MODULE Spec2Model ----
(***************************************************************************)
(* Model of pupylib/PupyModule.py, class Log: a stream that forwards each  *)
(* write to a live console sink (self.out) and records it in a recording   *)
(* sink (self.log) as plain text, ttyrec frames or an asciinema document.  *)
(*                                                                         *)
(* Byte strings are sequences of byte values; unicode strings are          *)
(* sequences of code points.  A value [u |-> BOOLEAN, s |-> sequence] is a *)
(* Python 2 string with its type (u = TRUE: unicode, u = FALSE: str).      *)
(* Time is counted in ticks, TicksPerSec ticks to the second.              *)
(***************************************************************************)
EXTENDS Integers, Sequences, FiniteSets, TLC

\* ---------------------------------------------------------------- bounds
MaxWrites == 2
MaxTime == 2
MaxFails == 1
MaxCloses == 2
MaxChunk == 9
MaxInits == 2
MaxFrees == 2
MaxTemplate == 2

\* Two ticks to the second: time.time() values are 0.5 s apart in the model.
TicksPerSec == 2

\* The two characters the cleaner's pattern names: '\033' and 'm'.
ESC == 27
Cm == 109
\* Other bytes of the model's alphabet: 'a'; 0xC3 0xA9, the UTF-8 encoding of
\* U+00E9; and 0xFF, which is valid nowhere in UTF-8.
Bytes == [a |-> 97, c3 |-> 195, a9 |-> 169, ff |-> 255]

None == <<>>
Some(x) == <<x>>
\* Python truthiness of an optional string or list: neither None nor empty.
Truthy(o) == o # None /\ o[1] # <<>>

\* The data the caller passes to write(): byte strings (type str).
Datas == { <<>>, <<Bytes.c3, Bytes.a9>>, <<Bytes.a, Bytes.ff>>,
           <<ESC, Bytes.a, Cm, Bytes.a>> }
Sizes == {0, 1}
\* (command, args) pairs given to the constructor: a command with arguments.
CmdArgs == { <<Some(<<"ls">>), Some(<<"-la">>)>> }
\* (rec, isatty) pairs: the rec argument and what the live sink answers.
RecTty == { <<"", FALSE>>, <<"", TRUE>>, <<"ttyrec", TRUE>>, <<"asciinema", TRUE>> }

\* Every rec argument with either answer of the live sink: None, the two
\* recording formats and a value that names no format.
RecTtyAll == { "", "ttyrec", "asciinema", "script" } \X BOOLEAN
\* command and args each absent, empty or present.
CmdArgsAll == { None, Some(<<>>), Some(<<"ls">>) } \X { None, Some(<<>>), Some(<<"-la">>) }

VARIABLES
    out_tty,    \* self.out.isatty(): TRUE a terminal, FALSE a StringIO buffer
    close_out,  \* self.close_out
    rec,        \* self.rec: "" (None), "ttyrec" or "asciinema"
    unicode,    \* self.unicode
    closed,     \* self.closed
    last,       \* self.last
    start,      \* self.start
    outBuf,     \* what the live sink holds (buffer) or has shown (terminal)
    outClosed,  \* the live sink has been closed
    logData,    \* the items written to the recording sink, in order
    logClosed,  \* the recording sink has been closed
    now,        \* the clock read by time.time()
    op,         \* the last operation called: [name, arg, wasClosed]
    calls,      \* the sink calls that operation made, in order
    exc,        \* the exception it raised to its caller ("" = returned)
    ret,        \* the value it returned: for getvalue() the text, else <<>>
    outCloses,  \* number of out.close() calls so far
    outDone,    \* number of out.close() calls that returned without raising
    logCloses,  \* number of log.close() calls so far
    fails,      \* number of sink calls that failed with an I/O error so far
    written,    \* the write() calls with data on a session not closed, in
                \* order: [data, ok], ok telling whether the call returned
    pristine,   \* no close(), finalizer or truncate() has been called yet
    reqRec,     \* the rec argument the constructor was given
    reqCmd,     \* the (command, args) pair the constructor was given
    faulty,     \* whether sink calls may fail with an I/O error in this run
    pupy        \* the PupyModule object owning the stream, its stdout and
                \* the Logs it has created (NoModule: a Log used on its own)

vars == << out_tty, close_out, rec, unicode, closed, last, start, outBuf,
           outClosed, logData, logClosed, now, op, calls, exc, outCloses,
           outDone, logCloses, fails, ret, written, pristine, reqRec, reqCmd, faulty,
           pupy >>

config == << out_tty, close_out, rec, unicode, reqRec, reqCmd, faulty, pupy >>

\* -------------------------------------------------------------- helpers
Min(a, b) == IF a < b THEN a ELSE b

RECURSIVE Pow(_, _)
Pow(b, e) == IF e = 0 THEN 1 ELSE b * Pow(b, e - 1)

Take(s, n) == SubSeq(s, 1, Min(n, Len(s)))
Drop(s, n) == SubSeq(s, n + 1, Len(s))

\* All enumerations of a finite set as a sequence without repetition.
Orders(S) ==
    { o \in [1..Cardinality(S) -> S] :
        \A i, j \in 1..Cardinality(S) : i # j => o[i] # o[j] }

\* ------------------------------------------------- text and byte codecs
\* str.decode('utf-8', errors='ignore') on byte strings whose sequences are at
\* most two bytes long: an invalid byte is dropped.
IsCont(b) == b >= 128 /\ b <= 191
IsLead2(b) == b >= 194 /\ b <= 223

RECURSIVE DecodeIgnore(_)
DecodeIgnore(b) ==
    IF b = <<>> THEN <<>>
    ELSE IF b[1] < 128 THEN <<b[1]>> \o DecodeIgnore(Tail(b))
    ELSE IF IsLead2(b[1]) /\ Len(b) >= 2 /\ IsCont(b[2])
         THEN <<(b[1] - 192) * 64 + (b[2] - 128)>> \o DecodeIgnore(Drop(b, 2))
    ELSE DecodeIgnore(Tail(b))

\* Whether a byte string decodes as UTF-8 without error (strict decoding).
RECURSIVE ValidUtf8(_)
ValidUtf8(b) ==
    IF b = <<>> THEN TRUE
    ELSE IF b[1] < 128 THEN ValidUtf8(Tail(b))
    ELSE IF IsLead2(b[1]) /\ Len(b) >= 2 /\ IsCont(b[2])
         THEN ValidUtf8(Drop(b, 2))
    ELSE FALSE

\* "if self.unicode: if type(data) != unicode: data = data.decode(...)".
DecodeData(u, d) ==
    IF u /\ ~d.u THEN [u |-> TRUE, s |-> DecodeIgnore(d.s)] ELSE d

\* json.dumps([duration, data]): a str is decoded as UTF-8 (strictly) and a
\* str that is not UTF-8 raises UnicodeDecodeError; the result is JSON text.
JsonRaises(d) == ~d.u /\ ~ValidUtf8(d.s)
JsonElem(duration, d) ==
    [k |-> "elem", delta |-> duration,
     text |-> IF d.u THEN d.s ELSE DecodeIgnore(d.s)]

\* math.modf(now) and the scaling of the fraction to microseconds.
Sec(t) == t \div TicksPerSec
Usec(t) == (t % TicksPerSec) * (1000000 \div TicksPerSec)

\* struct.pack('<III', ...) + data: a str header joined to a unicode payload
\* is decoded as ASCII first, which fails on any header byte above 0x7f.
HasHighByte(n) == \E i \in 0..3 : (n \div Pow(256, i)) % 256 >= 128
PackRaises(t, d) ==
    d.u /\ (HasHighByte(Sec(t)) \/ HasHighByte(Usec(t)) \/ HasHighByte(Len(d.s)))
TtyFrame(t, d) ==
    [k |-> "frame", sec |-> Sec(t), usec |-> Usec(t), len |-> Len(d.s),
     payload |-> d.s, u |-> d.u]

\* ------------------------------------------------------ escape cleaner
\* The index of the first 'm' of s at or after i, 0 when there is none.
RECURSIVE FirstM(_, _)
FirstM(s, i) ==
    IF i > Len(s) THEN 0 ELSE IF s[i] = Cm THEN i ELSE FirstM(s, i + 1)

\* self.cleaner.finditer(data): the matches of (\033[^m]+m) from index i on,
\* leftmost first and not overlapping.
RECURSIVE FindIter(_, _)
FindIter(s, i) ==
    IF i > Len(s) THEN <<>>
    ELSE LET j == FirstM(s, i + 1)
         IN  IF s[i] = ESC /\ j >= i + 2
             THEN <<SubSeq(s, i, j)>> \o FindIter(s, j + 1)
             ELSE FindIter(s, i + 1)

\* seqs: the set of the distinct matched substrings.
Seqs(s) == LET f == FindIter(s, 1) IN { f[i] : i \in 1..Len(f) }

\* data.replace(seq, ''): every occurrence, left to right, not overlapping.
RECURSIVE Replace(_, _)
Replace(s, q) ==
    IF Len(s) < Len(q) THEN s
    ELSE IF SubSeq(s, 1, Len(q)) = q THEN Replace(Drop(s, Len(q)), q)
    ELSE <<s[1]>> \o Replace(Tail(s), q)

\* "for seq in seqs: data = data.replace(seq, '')", seqs iterated in order o.
RECURSIVE CleanIn(_, _)
CleanIn(s, o) ==
    IF o = <<>> THEN s ELSE CleanIn(Replace(s, o[1]), Tail(o))

Contains(s, q) == \E i \in 1..(Len(s) - Len(q) + 1) : SubSeq(s, i, i + Len(q) - 1) = q

\* ------------------------------------------------------------ the sinks
\* The mutable part of the state as one record, threaded through the calls an
\* operation makes.  f is the index of the sink call of this operation that
\* fails with an I/O error (0: none); fc tells whether a close() that fails
\* leaves its sink closed all the same.
Cur(f, fc) ==
    [closed |-> closed, last |-> last, start |-> start, outBuf |-> outBuf,
     outClosed |-> outClosed, logData |-> logData, logClosed |-> logClosed,
     outCloses |-> outCloses, outDone |-> outDone, logCloses |-> logCloses,
     calls |-> <<>>, exc |-> "", ret |-> <<>>, f |-> f, fc |-> fc, inj |-> 0]

Raise(w, e) == [w EXCEPT !.exc = e]
Called(w, sink, o, arg, e) ==
    [w EXCEPT !.calls = Append(@, [sink |-> sink, op |-> o, arg |-> arg, ok |-> e = ""]),
              !.exc = e]

\* A call self.out.<o>(arg).  A StringIO has no fileno and a terminal file no
\* getvalue; every method but close() raises ValueError on a closed sink; a
\* terminal may fail with an I/O error, a StringIO does not.
OutCall(w, o, arg) ==
    LET k == Len(w.calls) + 1
        missing == (o = "getvalue" /\ out_tty) \/ (o = "fileno" /\ ~out_tty)
        injected == ~missing /\ w.f = k /\ out_tty
        e == IF missing THEN "AttributeError"
             ELSE IF injected THEN "IOError"
             ELSE IF w.outClosed /\ o # "close" THEN "ValueError"
             ELSE ""
        w1 == Called(w, "out", o, arg, e)
        w2 == IF injected THEN [w1 EXCEPT !.inj = 1] ELSE w1
    IN  CASE o = "close" ->
               [w2 EXCEPT !.outCloses = @ + 1,
                          !.outDone = IF injected THEN @ ELSE @ + 1,
                          !.outClosed = IF injected THEN @ \/ w.fc ELSE TRUE]
          [] o = "write" /\ e = "" -> [w2 EXCEPT !.outBuf = @ \o arg]
          [] o = "truncate" /\ e = "" -> [w2 EXCEPT !.outBuf = Take(@, arg)]
          [] OTHER -> w2

\* A call self.log.<o>(arg); write() and flush() raise ValueError on a closed
\* sink, and any call may fail with an I/O error.
LogCall(w, o, arg) ==
    LET k == Len(w.calls) + 1
        injected == w.f = k
        e == IF injected THEN "IOError"
             ELSE IF w.logClosed /\ o # "close" THEN "ValueError"
             ELSE ""
        w1 == Called(w, "log", o, arg, e)
        w2 == IF injected THEN [w1 EXCEPT !.inj = 1] ELSE w1
    IN  CASE o = "close" ->
               [w2 EXCEPT !.logCloses = @ + 1,
                          !.logClosed = IF injected THEN @ \/ w.fc ELSE TRUE]
          [] o = "write" /\ e = "" -> [w2 EXCEPT !.logData = Append(@, arg)]
          [] OTHER -> w2

\* ------------------------------------------------------- Log's methods
\* A write() that has lost its "if self.closed: return".
WriteSkipsEmptyOnly(w, data) == data = <<>>

\* write(): "if self.closed: return" and "if not data: return".
WriteSkips(w, data) == w.closed \/ data = <<>>

\* The ttyrec branch of write().
WriteTtyrec(w, t, d) ==
    IF PackRaises(t, d) THEN Raise(w, "UnicodeDecodeError")
    ELSE LogCall(w, "write", TtyFrame(t, d))

\* "if self.last:" in the asciinema branch: a comma is due.
CommaDue(w) == w.last # 0

\* A delta that is the time read, with the last write's time not taken off.
FrameDeltaFromEpoch(w, t) == IF CommaDue(w) THEN t ELSE 0

\* "duration = now - self.last" under "if self.last:", else "duration = 0".
FrameDelta(w, t) == IF CommaDue(w) THEN t - w.last ELSE 0

\* The asciinema branch of write().
WriteAsciinema(w, t, d) ==
    LET duration == FrameDelta(w, t)
        w1 == IF CommaDue(w) THEN LogCall(w, "write", [k |-> "comma"]) ELSE w
    IN  IF w1.exc # "" THEN w1
        ELSE IF JsonRaises(d) THEN Raise(w1, "UnicodeDecodeError")
        ELSE LogCall(w1, "write", JsonElem(duration, d))

\* The plain branch of write(); o is the order the set seqs is iterated in.
WritePlain(w, d, o) ==
    LogCall(w, "write", [k |-> "text", s |-> CleanIn(d.s, o), u |-> d.u])

\* A write() that forwards the data to the live sink after decoding it.
LiveDataDecoded(data) == DecodeIgnore(data)

\* The data write() hands to self.out.write().
LiveData(data) == data

DoWrite(w, data, o) ==
    IF WriteSkips(w, data) THEN w
    ELSE LET w1 == OutCall(w, "write", LiveData(data))
             t == now
             d == DecodeData(unicode, [u |-> FALSE, s |-> data])
             w2 == CASE rec = "ttyrec" -> WriteTtyrec(w1, t, d)
                     [] rec = "asciinema" -> WriteAsciinema(w1, t, d)
                     [] OTHER -> WritePlain(w1, d, o)
         IN  IF w1.exc # "" THEN w1
             ELSE IF w2.exc # "" THEN w2
             ELSE [w2 EXCEPT !.last = t]

FlushSkips(w) == w.closed

DoFlush(w) ==
    IF FlushSkips(w) THEN w
    ELSE LET w1 == OutCall(w, "flush", <<>>)
         IN  IF w1.exc # "" THEN w1 ELSE LogCall(w1, "flush", <<>>)

\* A close() that has lost its "if self.closed: return".
CloseSkipsNever(w) == FALSE

CloseSkips(w) == w.closed

\* A close() that closes the live sink whether it owns it or not.
CloseLiveAlways(w) == OutCall(w, "close", <<>>)

\* "if self.close_out: self.out.close()".
CloseLive(w) == IF close_out THEN OutCall(w, "close", <<>>) ELSE w

\* A close() that writes the footer only when a frame has been recorded.
CloseFooterIfFrames(w) ==
    IF rec = "asciinema" /\ w.last # 0
    THEN LogCall(w, "write", [k |-> "footer", duration |-> now - w.start])
    ELSE w

\* "if self.rec == 'asciinema': self.log.write('],\"duration\":{}}'...)".
CloseFooter(w) ==
    IF rec = "asciinema"
    THEN LogCall(w, "write", [k |-> "footer", duration |-> now - w.start])
    ELSE w

DoClose(w) ==
    IF CloseSkips(w) THEN w
    ELSE LET w1 == CloseLive(w)
             w2 == IF w1.exc # "" THEN w1 ELSE CloseFooter(w1)
             w3 == IF w2.exc # "" THEN w2 ELSE LogCall(w2, "close", <<>>)
         IN  IF w3.exc # "" THEN w3 ELSE [w3 EXCEPT !.closed = TRUE]

\* __del__: "if not self.closed: self.close()"; what a finalizer raises is
\* reported by the interpreter and not raised to any caller.
DoDel(w) == IF ~w.closed THEN [DoClose(w) EXCEPT !.exc = ""] ELSE w

DoIsatty(w) == OutCall(w, "isatty", <<>>)

DoGetvalue(w) ==
    LET w1 == OutCall(w, "getvalue", <<>>)
        value == w1.outBuf
        w2 == IF ~w1.closed THEN LogCall(w1, "flush", <<>>) ELSE w1
    IN  IF w1.exc # "" THEN w1
        ELSE IF w2.exc # "" THEN w2
        ELSE [w2 EXCEPT !.ret = value]

DoFileno(w) == OutCall(w, "fileno", <<>>)

TruncateSkips(w) == w.closed

\* A truncate() that cuts the recording to size as well.
TruncateLogToo(w, size) ==
    [LogCall(w, "flush", <<>>) EXCEPT !.logData = Take(@, size)]

\* What truncate() does to the recording sink: "self.log.flush()".
TruncateLog(w, size) == LogCall(w, "flush", <<>>)

DoTruncate(w, size) ==
    IF TruncateSkips(w) THEN w
    ELSE LET w1 == OutCall(w, "truncate", size)
         IN  IF w1.exc # "" THEN w1 ELSE TruncateLog(w1, size)

\* readline(), readlines() and read(): o names the method.
DoRead(w, o) == OutCall(w, o, <<>>)

\* ----------------------------------------------------- the constructor
\* consize(self.out): the live console's size as (rows, columns).
consize == <<24, 80>>

\* A mode selection that does not ask the live sink whether it is a terminal.
EffectiveRecAnySink(r, tty) ==
    IF r # "" /\ r \in {"asciinema", "ttyrec"} THEN r ELSE ""

\* "if rec and self.out.isatty() and rec in ('asciinema', 'ttyrec')".
EffectiveRec(r, tty) ==
    IF r # "" /\ tty /\ r \in {"asciinema", "ttyrec"} THEN r ELSE ""

\* "if command and args: command = command + ' ' + ' '.join(args)"; a command
\* line is the sequence of its words.
JoinCommand(command, args) ==
    IF Truthy(command) /\ Truthy(args) THEN Some(command[1] \o args[1])
    ELSE command

\* The asciinema header written by the constructor.
AsciinemaHeader(command, title) ==
    [k |-> "hdr", command |-> command, title |-> title,
     width |-> consize[1], height |-> consize[2]]

\* What the constructor writes to the recording sink.
CtorWrites(r, u, command, args, title) ==
    LET c == JoinCommand(command, args)
    IN  CASE r = "asciinema" -> << AsciinemaHeader(c, title) >>
          [] r = "ttyrec" -> << >>
          [] OTHER -> IF Truthy(c)
                      THEN << [k |-> "cmdline", words |-> c[1], u |-> u] >>
                      ELSE << >>

\* The state after Log(out, log, close_out, rec, command, args, None, unicode),
\* the (rec, isatty) pair drawn from RT and the (command, args) pair from CA.
ConstructedFrom(RT, CA) ==
    \E rt \in RT, co \in BOOLEAN, u \in BOOLEAN, ca \in CA :
        LET r == rt[1]
            tty == rt[2]
            hdr == CtorWrites(EffectiveRec(r, tty), u, ca[1], ca[2], None)
        IN  /\ reqRec = r
            /\ reqCmd = ca
            /\ out_tty = tty
            /\ close_out = co
            /\ unicode = u
            /\ rec = EffectiveRec(r, tty)
            /\ closed = FALSE
            /\ now = 1
            /\ last = IF EffectiveRec(r, tty) = "ttyrec" THEN 1 ELSE 0
            /\ start = IF EffectiveRec(r, tty) = "asciinema" THEN 1 ELSE 0
            /\ outBuf = <<>>
            /\ outClosed = FALSE
            /\ logData = hdr
            /\ logClosed = FALSE
            /\ op = [name |-> "init", arg |-> <<>>, wasClosed |-> FALSE]
            /\ calls = [i \in 1..Len(hdr) |->
                          [sink |-> "log", op |-> "write", arg |-> hdr[i], ok |-> TRUE]]
            /\ exc = ""
            /\ outCloses = 0
            /\ outDone = 0
            /\ logCloses = 0
            /\ fails = 0
            /\ ret = <<>>
            /\ written = <<>>
            /\ pristine = TRUE

\* A Log constructed by its caller directly, with no PupyModule around it.
NoModule == [op |-> "none"]

Constructed == ConstructedFrom(RecTty, CmdArgs) /\ pupy = NoModule

\* ------------------------------------------------------------- actions
\* An operation named name, called with arg, has taken the state to w.
Commit(w, name, arg) ==
    /\ closed' = w.closed
    /\ last' = w.last
    /\ start' = w.start
    /\ outBuf' = w.outBuf
    /\ outClosed' = w.outClosed
    /\ logData' = w.logData
    /\ logClosed' = w.logClosed
    /\ outCloses' = w.outCloses
    /\ outDone' = w.outDone
    /\ logCloses' = w.logCloses
    /\ calls' = w.calls
    /\ exc' = w.exc
    /\ ret' = w.ret
    /\ fails' = fails + w.inj
    /\ op' = [name |-> name, arg |-> arg, wasClosed |-> closed]
    /\ UNCHANGED << config, now >>

\* The sink call that fails in an operation making at most n calls, if one
\* does: at most MaxFails sink calls fail in a run.
FailAt(n) == { f \in 0..n : f = 0 \/ (faulty /\ fails < MaxFails) }

\* The orders in which write() may iterate the set seqs for data d.
CleanOrders(d) ==
    IF rec = "" THEN Orders(Seqs(DecodeData(unicode, [u |-> FALSE, s |-> d]).s))
    ELSE { <<>> }

WriteData(d) ==
    /\ (d # <<>> /\ ~closed) => Len(written) < MaxWrites
    /\ \E f \in FailAt(3), o \in CleanOrders(d) :
          Commit(DoWrite(Cur(f, FALSE), d, o), "write", d)
    /\ written' = IF d # <<>> /\ ~closed
                  THEN Append(written, [data |-> d, ok |-> exc' = ""])
                  ELSE written
    /\ UNCHANGED pristine

Write == \E d \in Datas : WriteData(d)

Flush ==
    /\ \E f \in FailAt(2) : Commit(DoFlush(Cur(f, FALSE)), "flush", <<>>)
    /\ UNCHANGED << written, pristine >>

\* close() and the finalizer are explored while the sinks have been closed
\* fewer than MaxCloses times.
CloseBudget == outCloses < MaxCloses /\ logCloses < MaxCloses

Close ==
    /\ CloseBudget
    /\ \E f \in FailAt(3), fc \in BOOLEAN : Commit(DoClose(Cur(f, fc)), "close", <<>>)
    /\ pristine' = FALSE
    /\ UNCHANGED written

Del ==
    /\ CloseBudget
    /\ \E f \in FailAt(3), fc \in BOOLEAN : Commit(DoDel(Cur(f, fc)), "del", <<>>)
    /\ pristine' = FALSE
    /\ UNCHANGED written

Isatty ==
    /\ \E f \in FailAt(1) : Commit(DoIsatty(Cur(f, FALSE)), "isatty", <<>>)
    /\ UNCHANGED << written, pristine >>

Getvalue ==
    /\ \E f \in FailAt(2) : Commit(DoGetvalue(Cur(f, FALSE)), "getvalue", <<>>)
    /\ UNCHANGED << written, pristine >>

Fileno ==
    /\ \E f \in FailAt(1) : Commit(DoFileno(Cur(f, FALSE)), "fileno", <<>>)
    /\ UNCHANGED << written, pristine >>

Truncate ==
    /\ \E size \in Sizes, f \in FailAt(2) :
          Commit(DoTruncate(Cur(f, FALSE), size), "truncate", size)
    /\ pristine' = FALSE
    /\ UNCHANGED written

Read ==
    /\ \E o \in {"readline", "readlines", "read"}, f \in FailAt(1) :
          Commit(DoRead(Cur(f, FALSE), o), o, <<>>)
    /\ UNCHANGED << written, pristine >>

\* The clock advances between operations.
Tick ==
    /\ now < MaxTime
    /\ now' = now + 1
    /\ UNCHANGED << config, closed, last, start, outBuf, outClosed, logData,
                    logClosed, op, calls, exc, ret, outCloses, outDone, logCloses,
                    fails, written, pristine >>

Next ==
    \/ Write
    \/ Flush
    \/ Close
    \/ Del
    \/ Isatty
    \/ Getvalue
    \/ Fileno
    \/ Truncate
    \/ Read
    \/ Tick

\* Runs in which every sink call does its work: no I/O error.
Init == Constructed /\ faulty = FALSE

Spec == Init /\ [][Next]_vars

\* Runs in which up to MaxFails sink calls fail with an I/O error.
InitFail == Constructed /\ faulty = TRUE

SpecFail == InitFail /\ [][Next]_vars

\* Sessions constructed with every kind of rec, command and args argument,
\* written to, closed and finalized.
InitCtor ==
    ConstructedFrom(RecTtyAll, CmdArgsAll) /\ pupy = NoModule /\ faulty = FALSE

NextCtor ==
    \/ Write
    \/ Close
    \/ Del
    \/ Tick

SpecCtor == InitCtor /\ [][NextCtor]_vars

\* The escape cleaner on every chunk of at most MaxChunk characters over
\* ESC, 'a' and 'm': one write() to a plain session, then close().
RECURSIVE SeqsUpTo(_, _)
SeqsUpTo(S, n) ==
    IF n = 0 THEN { <<>> }
    ELSE LET shorter == SeqsUpTo(S, n - 1)
         IN  shorter \cup { Append(s, c) : s \in shorter, c \in S }

CleanChunks == SeqsUpTo({ESC, Bytes.a, Cm}, MaxChunk)

InitClean == Init /\ rec = "" /\ ~out_tty /\ ~close_out

WriteChunk == written = <<>> /\ ~closed /\ \E d \in CleanChunks : WriteData(d)

NextClean ==
    \/ WriteChunk
    \/ Close

SpecClean == InitClean /\ [][NextClean]_vars

\* --------------------------------------------------------- PupyModule
\* A log-file path or template is a sequence of tokens: a placeholder such
\* as %c, the value that stands for a placeholder, or literal text.
Placeholder(k) == [t |-> "ph", k |-> k]
ValueOf(k) == [t |-> "val", k |-> k]
Literal(x) == [t |-> "lit", k |-> x]

\* The keys of the replacements dict of init(), as the source lists them.
Keys == << "%c", "%m", "%M", "%p", "%a", "%h", "%u", "%t" >>

\* The orders in which replacements.iteritems() may yield the keys: the
\* language leaves the order of a dict open, and every key may come last.
KeyOrders ==
    { [j \in 1..Len(Keys) |-> Keys[((i + j - 2) % Len(Keys)) + 1]] :
        i \in 1..Len(Keys) }

\* self.log_file.replace(k, str(v)).
ReplaceKey(template, k) ==
    [j \in 1..Len(template) |->
        IF template[j] = Placeholder(k) THEN ValueOf(k) ELSE template[j]]

\* "for k,v in replacements.iteritems(): log = self.log_file.replace(k, str(v))":
\* log is the value the loop leaves behind, the keys taken in order.
RECURSIVE ReplaceLoop(_, _, _)
ReplaceLoop(log_file, order, log) ==
    IF order = <<>> THEN log
    ELSE ReplaceLoop(log_file, Tail(order), ReplaceKey(log_file, order[1]))

\* self.config.get_file('logs', replacements): the path the configuration
\* provider builds.
ConfigPath == << Literal("logs") >>

\* The templates given as the log argument: up to MaxTemplate tokens.
Templates ==
    SeqsUpTo({ Placeholder(Keys[i]) : i \in 1..Len(Keys) } \cup { Literal("-") },
             MaxTemplate)

\* PupyModule.__init__(client, job, formatter, stdout, log) with a class
\* attribute rec; logs is config.getboolean('pupyd', 'logs').  stdout 0 is
\* the stream under every Log: the caller's, or the module's own StringIO.
\* chain holds the Logs created by init(), each wrapping the one before it
\* (the first wraps the stream); self.stdout is the last of them.
NewModule(client, logs, r, given, log) ==
    [ client |-> client, logs |-> logs, rec |-> r, log_file |-> log,
      given |-> given,
      del_close |-> ~given,
      chain |-> <<>>,
      streamCloses |-> 0,
      inits |-> 0, frees |-> 0,
      op |-> "new" ]

\* An init() that hands every Log the live sink to own.
LogCloseOutAlways(m) == TRUE

\* "close_out=self.del_close" in the Log(...) call of init().
LogCloseOut(m) == m.del_close

\* init(): a Log is created when there is a client and logging is on or a
\* log file was given; order is the order the replacements are iterated in.
DoInit(m, order) ==
    IF m.client /\ (m.logs \/ Truthy(m.log_file))
    THEN LET \* named: command and args are passed (no log file was given)
             log == IF Truthy(m.log_file)
                    THEN ReplaceLoop(m.log_file[1], order, <<>>)
                    ELSE ConfigPath
             new == [ path |-> log,
                      mode |-> IF m.rec # "" THEN "bytes" ELSE "utf8",
                      unicode |-> m.rec = "",
                      close_out |-> LogCloseOut(m),
                      rec |-> m.rec,
                      named |-> ~Truthy(m.log_file),
                      closed |-> FALSE,
                      fileCloses |-> 0 ]
         IN  [m EXCEPT !.chain = Append(@, new), !.del_close = TRUE]
    ELSE m

\* close() called on stream i of the module: 0 is the stream under the Logs
\* and i > 0 the Log chain[i], whose close() closes the stream it wraps (when
\* close_out) and its recording file, unless it is closed already.
RECURSIVE CloseStream(_, _)
CloseStream(m, i) ==
    IF i = 0 THEN [m EXCEPT !.streamCloses = @ + 1]
    ELSE IF m.chain[i].closed THEN m
    ELSE LET m1 == IF m.chain[i].close_out THEN CloseStream(m, i - 1) ELSE m
         IN  [m1 EXCEPT !.chain[i].fileCloses = @ + 1,
                        !.chain[i].closed = TRUE]

\* free(): "if self.del_close: self.stdout.close()".
DoFree(m) == IF m.del_close THEN CloseStream(m, Len(m.chain)) ELSE m

\* The Log class's own variables: left alone by the module's operations.
logVars == << out_tty, close_out, rec, unicode, closed, last, start, outBuf,
              outClosed, logData, logClosed, now, op, calls, exc, outCloses,
              outDone, logCloses, fails, ret, written, pristine, reqRec,
              reqCmd, faulty >>

ModuleInit ==
    /\ pupy.inits < MaxInits
    /\ \E order \in KeyOrders :
          pupy' = [DoInit(pupy, order) EXCEPT !.inits = @ + 1, !.op = "init"]
    /\ UNCHANGED logVars

ModuleFree ==
    /\ pupy.frees < MaxFrees
    /\ pupy' = [DoFree(pupy) EXCEPT !.frees = @ + 1, !.op = "free"]
    /\ UNCHANGED logVars

\* PupyModule.__del__: "self.free()".
ModuleDel ==
    /\ pupy.frees < MaxFrees
    /\ pupy' = [DoFree(pupy) EXCEPT !.frees = @ + 1, !.op = "del"]
    /\ UNCHANGED logVars

\* The log arguments of the modules whose streams are followed: none, an
\* empty one and a template.
LogFiles == { None, Some(<<>>), Some(<< Placeholder("%c"), Literal("-") >>) }

\* The Log variables of a specification about PupyModule: one plain Log.
IdleLog ==
    /\ ConstructedFrom({ <<"", FALSE>> }, { <<None, None>> })
    /\ ~close_out /\ ~unicode /\ faulty = FALSE

\* Modules constructed with and without a client, a stdout of the caller, a
\* log file, a recording format and automatic logging; then any sequence of
\* init(), free() and finalizer calls.
InitModule ==
    /\ IdleLog
    /\ \E client \in BOOLEAN, logs \in BOOLEAN, r \in {"", "ttyrec"},
          given \in BOOLEAN, log \in LogFiles :
          pupy = NewModule(client, logs, r, given, log)

NextModule ==
    \/ ModuleInit
    \/ ModuleFree
    \/ ModuleDel

SpecModule == InitModule /\ [][NextModule]_vars

\* Modules constructed with a client and each template as the log argument;
\* init(), then free().
InitPath ==
    /\ IdleLog
    /\ \E r \in {"", "ttyrec"}, given \in BOOLEAN, t \in Templates :
          pupy = NewModule(TRUE, FALSE, r, given, Some(t))

NextPath ==
    \/ pupy.inits = 0 /\ ModuleInit
    \/ pupy.inits = 1 /\ pupy.frees = 0 /\ ModuleFree

SpecPath == InitPath /\ [][NextPath]_vars

\* ------------------------------------------------------------- claims
\* The state of the Log object and of its two sinks.
logState == << closed, last, start, outBuf, outClosed, logData, logClosed,
               outCloses, logCloses >>

\* The number of items of kind k in the recording.
Count(k) == Cardinality({ i \in 1..Len(logData) : logData[i].k = k })

\* C1: once the session is closed, a call of write(data), flush() or
\* truncate(size) returns normally, makes no call on the live sink or on the
\* recording sink and leaves the timer fields, the closed flag and both sinks
\* as they were, in every recording mode and for any data.
C1_ClosedWriteFlushTruncateNoOp ==
    [][ (closed /\ now' = now /\ op'.name \in {"write", "flush", "truncate"})
        => (calls' = <<>> /\ exc' = "" /\ UNCHANGED logState) ]_vars

\* A write() with data has been called on a closed session that had recorded.
C1_Witness ==
    /\ op.name = "write" /\ op.wasClosed /\ op.arg # <<>>
    /\ closed /\ written # <<>>

\* C2: when no sink call fails, the recording sink is closed exactly once:
\* the first close(), or the finalizer if close() was never called, closes
\* it, and every later close() or finalizer run makes no call on either sink
\* and changes no state.
C2_RecordingSinkClosedOnce ==
    /\ [](logCloses <= 1 /\ (closed <=> logCloses = 1) /\ (closed <=> logClosed))
    /\ [][ (now' = now /\ op'.name \in {"close", "del"})
           => IF closed
              THEN calls' = <<>> /\ exc' = "" /\ UNCHANGED logState
              ELSE /\ logCloses' = 1 /\ closed' /\ exc' = ""
                   /\ calls'[Len(calls')] = [sink |-> "log", op |-> "close",
                                              arg |-> <<>>, ok |-> TRUE] ]_vars

\* close() or the finalizer has run on a session already closed.
C2_Witness ==
    /\ op.name \in {"close", "del"} /\ op.wasClosed
    /\ closed /\ logCloses = 1

\* C3: no operation closes a live sink the Log was constructed with
\* close_out=False for; a live sink with close_out=True is closed once, by the
\* first close() (called directly or by the finalizer), and by nothing else.
C3_LiveSinkClosedOnlyIfOwned ==
    /\ [](outCloses = IF close_out /\ closed THEN 1 ELSE 0)
    /\ [](outClosed <=> (close_out /\ closed))
    /\ [][ outCloses' # outCloses
           => /\ close_out /\ ~closed /\ outCloses = 0
              /\ op'.name \in {"close", "del"} ]_vars

\* An owned live sink has been closed and close() has been called again.
C3_Witness ==
    /\ close_out /\ closed /\ outCloses = 1
    /\ op.name = "close" /\ op.wasClosed

\* C4: in asciinema mode the recording starts with the header written at
\* construction, before any frame; the footer is written once, by the first
\* close(); and nothing follows the footer, whatever is called.
C4_AsciinemaHeaderFirstFooterLast ==
    /\ [](rec = "asciinema" =>
            /\ Len(logData) >= 1 /\ logData[1].k = "hdr"
            /\ Count("hdr") = 1
            /\ Count("footer") = IF closed THEN 1 ELSE 0
            /\ closed => logData[Len(logData)].k = "footer")
    /\ [][ (rec = "asciinema" /\ Count("footer") = 1) => UNCHANGED logData ]_vars
    /\ [][ (rec = "asciinema" /\ logData' # logData /\ Count("footer")' = 1)
           => ~closed /\ op'.name \in {"close", "del"} ]_vars

\* An asciinema session with a frame has been closed and written to again.
C4_Witness ==
    /\ rec = "asciinema" /\ closed /\ Count("elem") >= 1
    /\ op.name = "write" /\ op.wasClosed /\ op.arg # <<>>

\* The items of the recording between the header and the footer.
Body == SubSeq(logData, 2, Len(logData) - 1)

\* The data of the write() calls, and of those that returned, in call order.
AllData == [i \in 1..Len(written) |-> written[i].data]
IsOk(x) == x.ok
OkData == LET r == SelectSeq(written, IsOk) IN [i \in 1..Len(r) |-> r[i].data]

\* Strings concatenated in order.
RECURSIVE Flatten(_)
Flatten(ss) == IF ss = <<>> THEN <<>> ELSE ss[1] \o Flatten(Tail(ss))

\* C5: in asciinema mode, once the session is closed, the stdout array holds
\* one [delta, data] element per write() call with non-empty data made (and
\* returned from) before the close, in call order, with one comma between
\* consecutive elements and none before the first or after the last.
C5_AsciinemaOneElementPerWrite ==
    (rec = "asciinema" /\ closed) =>
        /\ Len(Body) = IF OkData = <<>> THEN 0 ELSE 2 * Len(OkData) - 1
        /\ \A i \in 1..Len(Body) :
              IF i % 2 = 1
              THEN /\ Body[i].k = "elem"
                   /\ Body[i].text = DecodeIgnore(OkData[(i + 1) \div 2])
              ELSE Body[i].k = "comma"

\* C6: in ttyrec mode the recording is the frames of the write() calls with
\* non-empty data that returned, in call order and nothing else (nothing from the
\* constructor or from close()), each frame carrying the length of its
\* payload and the payload as passed.
C6_TtyrecFramesOnly ==
    rec = "ttyrec" =>
        /\ Len(logData) = Len(OkData)
        /\ \A i \in 1..Len(logData) :
              /\ logData[i].k = "frame"
              /\ logData[i].len = Len(OkData[i])
              /\ logData[i].payload = OkData[i]

\* C7: in ttyrec mode, with the unicode flag set or not, the frame a write(data)
\* that returns has recorded carries the byte length of data as passed and its bytes unchanged.
C7_TtyrecNoDecoding ==
    (rec = "ttyrec" /\ op.name = "write" /\ ~op.wasClosed /\ op.arg # <<>>
        /\ exc = "") =>
        /\ calls[Len(calls)].sink = "log"
        /\ calls[Len(calls)].arg.len = Len(op.arg)
        /\ calls[Len(calls)].arg.payload = op.arg
        /\ ~calls[Len(calls)].arg.u

\* C8: in every mode and for both settings of the unicode flag, a write(data)
\* with non-empty data on an open session first hands data, unmodified, to the
\* live sink; with a buffer-backed live sink and no close or truncate so far,
\* the live sink holds, and getvalue() returns, the concatenation in call
\* order of all the data passed to write().
C8_LiveSinkGetsDataUnmodified ==
    /\ (op.name = "write" /\ ~op.wasClosed /\ op.arg # <<>>) =>
          /\ calls # <<>>
          /\ calls[1].sink = "out" /\ calls[1].op = "write"
          /\ calls[1].arg = op.arg
    /\ (~out_tty /\ pristine) =>
          /\ outBuf = Flatten(AllData)
          /\ op.name = "getvalue" => (exc = "" /\ ret = Flatten(AllData))

\* getvalue() on a buffer-backed session with the unicode flag set, after two
\* writes, one of them of bytes that decoding would change.
C8_Witness ==
    /\ ~out_tty /\ pristine /\ unicode /\ op.name = "getvalue"
    /\ Len(written) = 2
    /\ \E i \in 1..2 : DecodeIgnore(written[i].data) # written[i].data

\* C9: in plain mode the text a write() appends to the recording contains
\* none of the substrings of its chunk that matched the cleaner's pattern,
\* in whatever order the distinct matches are removed.
C9_PlainOutputHasNoMatchedSequence ==
    (rec = "" /\ op.name = "write" /\ ~op.wasClosed /\ op.arg # <<>> /\ exc = "") =>
        \A q \in Seqs(DecodeData(unicode, [u |-> FALSE, s |-> op.arg]).s) :
            ~Contains(logData[Len(logData)].s, q)

\* C10: every operation called after close() makes no call on either sink
\* and raises nothing.
C10_AfterCloseAllNoOps ==
    (op.wasClosed /\ op.name # "del") => (calls = <<>> /\ exc = "")

\* The time a write() call on an open asciinema session measures its delta
\* from: the time of the previous write() with data that returned, else the
\* session start.
DeltaOrigin == IF OkData # <<>> THEN last ELSE start

\* C11: a write() with non-empty data on an open asciinema session records
\* the delta now - (time of the previous non-empty write), or now - (session
\* start) when there was no earlier write, and then sets the last-write time
\* to now.
C11_AsciinemaDeltaSincePreviousOrStart ==
    [][ (rec = "asciinema" /\ ~closed /\ now' = now /\ op'.name = "write"
            /\ op'.arg # <<>> /\ exc' = "")
        => /\ logData'[Len(logData')].k = "elem"
           /\ logData'[Len(logData')].delta = now - DeltaOrigin
           /\ last' = now ]_vars

\* The sum of the deltas of the frames recorded.
RECURSIVE SumDeltas(_)
SumDeltas(items) ==
    IF items = <<>> THEN 0
    ELSE (IF items[1].k = "elem" THEN items[1].delta ELSE 0) + SumDeltas(Tail(items))

\* C12: in asciinema mode the duration close() writes, the close time minus
\* the session start, is at least the sum of the deltas of the frames
\* recorded (the clock of the model never goes back).
C12_DurationCoversFrames ==
    (rec = "asciinema" /\ Count("footer") = 1) =>
        /\ logData[Len(logData)].k = "footer"
        /\ logData[Len(logData)].duration >= SumDeltas(logData)
        /\ logData[Len(logData)].duration >= 0

\* A closed asciinema session with two frames recorded at different times.
C12_Witness ==
    /\ rec = "asciinema" /\ closed /\ Count("footer") = 1
    /\ Count("elem") = 2 /\ SumDeltas(logData) > 0

\* C13: in asciinema mode the header's width is the column count and its
\* height the row count of the live console, whose size query returns
\* (rows, columns): a console of size (24, 80) gives width 80 and height 24.
C13_HeaderWidthIsColumns ==
    rec = "asciinema" =>
        /\ logData[1].k = "hdr"
        /\ logData[1].width = consize[2]
        /\ logData[1].height = consize[1]

\* The kinds of item each mode records.
KindsOf(r) ==
    CASE r = "ttyrec" -> {"frame"}
      [] r = "asciinema" -> {"hdr", "elem", "comma", "footer"}
      [] OTHER -> {"cmdline", "text"}

\* C14: in plain mode the constructor writes the header line
\* "> <command> <args>" to the recording, before any write(), exactly when
\* command and args are both present and non-empty; when command is present
\* but args is absent or empty, or command is absent, it writes no header.
C14_PlainHeaderIffCommandAndArgs ==
    rec = "" =>
        IF Truthy(reqCmd[1]) /\ Truthy(reqCmd[2])
        THEN /\ Count("cmdline") = 1
             /\ logData[1].k = "cmdline"
             /\ logData[1].words = reqCmd[1][1] \o reqCmd[2][1]
        ELSE Count("cmdline") = 0

\* C16: the effective recording mode never changes after construction; it is
\* ttyrec or asciinema only if that mode was requested and the live sink is a
\* terminal, and plain for any other request or a live sink that is not a
\* terminal; the recording holds only items of the effective mode.
C16_ModeFixedAtConstruction ==
    /\ [][rec' = rec]_vars
    /\ [](rec = IF reqRec \in {"ttyrec", "asciinema"} /\ out_tty THEN reqRec ELSE "")
    /\ [](\A i \in 1..Len(logData) : logData[i].k \in KindsOf(rec))
    /\ [](~out_tty => \A i \in 1..Len(logData) : logData[i].k \in {"cmdline", "text"})

\* A session asked to record asciinema on a buffer-backed live sink has
\* recorded a write as plain text and has been closed.
C16_Witness ==
    /\ reqRec = "asciinema" /\ ~out_tty /\ closed
    /\ Count("text") >= 1

\* The call at position i of the last operation is <sink>.<o>().
IsCall(i, sink, o) == calls[i].sink = sink /\ calls[i].op = o

\* C15: getvalue() on a session that is not closed flushes the recording sink
\* before it reads the content of the live sink; on a closed session it
\* reads the live sink and does not flush the recording sink (stated of the
\* calls that return).
C15_GetvalueFlushesBeforeReading ==
    (op.name = "getvalue" /\ exc = "") =>
        IF ~op.wasClosed
        THEN /\ calls # <<>>
             /\ IsCall(1, "log", "flush")
             /\ \A i \in 1..Len(calls) : IsCall(i, "out", "getvalue") => i > 1
        ELSE /\ \E i \in 1..Len(calls) : IsCall(i, "out", "getvalue")
             /\ \A i \in 1..Len(calls) : ~IsCall(i, "log", "flush")

\* C17: over any sequence of close() and finalizer calls in which sink calls
\* raise, the live sink is closed at most once and the asciinema footer is
\* written at most once: a close() that failed partway repeats no step it
\* had performed.
C17_FailedCloseRepeatsNoStep ==
    /\ outDone <= 1
    /\ Count("footer") <= 1

\* The operations that neither record nor close.
Passive == {"flush", "truncate", "getvalue", "isatty", "fileno",
            "readline", "readlines", "read"}

\* C18: the recording is append-only: every step leaves what was recorded
\* in place, and flush(), truncate(size), getvalue(), isatty(), fileno() and
\* the read passthroughs never write to the recording sink nor change the
\* timer fields or the closed flag; truncate() shortens the live sink only.
C18_RecordingAppendOnly ==
    /\ [][ /\ Len(logData') >= Len(logData)
           /\ SubSeq(logData', 1, Len(logData)) = logData ]_vars
    /\ [][ (now' = now /\ op'.name \in Passive)
           => /\ UNCHANGED << logData, last, start, closed >>
              /\ \A i \in 1..Len(calls') :
                    ~(calls'[i].sink = "log" /\ calls'[i].op = "write") ]_vars

\* truncate() has shortened a buffer-backed live sink after a write was
\* recorded as text.
C18_Witness ==
    /\ op.name = "truncate" /\ ~op.wasClosed /\ exc = ""
    /\ ~out_tty /\ Count("text") >= 1
    /\ Len(outBuf) < Len(Flatten(AllData))

\* C19: a stdout stream the caller gave to PupyModule's constructor is never
\* closed by the module, over any sequence of init(), free() and finalizer
\* calls, with logging or without; free() closes what the module created:
\* its own StringIO buffer, and every Log with its recording file (once).
C19_CallerStdoutNeverClosed ==
    /\ pupy.given => pupy.streamCloses = 0
    /\ \A i \in 1..Len(pupy.chain) : pupy.chain[i].fileCloses <= 1
    /\ pupy.op \in {"free", "del"} =>
          /\ ~pupy.given => pupy.streamCloses >= 1
          /\ \A i \in 1..Len(pupy.chain) :
                pupy.chain[i].closed /\ pupy.chain[i].fileCloses = 1

\* free() has run on a module given its stdout by the caller, after init()
\* had wrapped the stream in a Log twice.
C19_Witness ==
    /\ pupy.given /\ pupy.op = "free"
    /\ Len(pupy.chain) = 2
    /\ \A i \in 1..2 : pupy.chain[i].closed

\* A template with each placeholder replaced by its value.
AllReplaced(template) ==
    [j \in 1..Len(template) |->
        IF template[j].t = "ph" THEN ValueOf(template[j].k) ELSE template[j]]

\* C20: when init() runs with a log-file template, the path opened as the
\* recording sink is the template with every placeholder occurring in it
\* replaced by its value, for templates with any of the placeholders,
\* two different ones included.
C20_EveryPlaceholderReplaced ==
    \A i \in 1..Len(pupy.chain) :
        pupy.chain[i].path = AllReplaced(pupy.log_file[1])

====
